---- MODULE Spec2Model ----
(***************************************************************************)
(* Model of the StaticSite construct (src/static-site.ts).                 *)
(*                                                                         *)
(* The constructor is a straight-line program with two branches.  Each     *)
(* statement of the constructor is one action; pc[b] is the statement the  *)
(* build b executes next.  Two independent builds (each under its own      *)
(* parent stack) run side by side so that properties relating two          *)
(* configurations can be stated over one state.                            *)
(*                                                                         *)
(* A JavaScript value that may be undefined is a sequence of length at     *)
(* most one: <<>> is undefined, <<v>> is the value v.  References between  *)
(* constructs are by construct id.  Attributes that are only known at      *)
(* deploy time (bucket name, distribution id, distribution domain name)    *)
(* are opaque tokens built from the construct id.                          *)
(* Free-text comment properties (lines 31, 70) are not modelled.           *)
(***************************************************************************)
EXTENDS Integers, Sequences, FiniteSets, TLC

VARIABLES pc, properties, stackName, cloudfrontOAI, siteBucket, resourcePolicy,
          zone, siteDomain, certificate, responseHeaderPolicy, distribution,
          aRecord, exports, lookups, error

vars == <<pc, properties, stackName, cloudfrontOAI, siteBucket, resourcePolicy,
          zone, siteDomain, certificate, responseHeaderPolicy, distribution,
          aRecord, exports, lookups, error>>

(* The builds that run side by side, each with its own parent stack. *)
Builds == {1, 2}

(* parent.stackName values tried. *)
StackNames == {"acme", "dev"}

(* properties.domainName values tried: undefined, empty, two domains. *)
DomainNames == {<<>>, <<"">>, <<"example.com">>, <<"nosuch.com">>}

(* properties.siteSubDomain values tried: undefined, empty, a label. *)
SubDomains == {<<>>, <<"">>, <<"www">>}

(***************************************************************************)
(* JavaScript semantics used by the constructor.                           *)
(***************************************************************************)

(* Truthiness of an optional string: undefined and "" are falsy. *)
Truthy(s) == s # <<>> /\ s[1] # ""

(* Interpolation of an optional string in a template literal. *)
TemplateString(s) == IF s = <<>> THEN "undefined" ELSE s[1]

(* A deploy-time attribute of a construct, as an opaque token. *)
Token(id, attr) == "${" \o id \o "." \o attr \o "}"

(***************************************************************************)
(* Construct ids and export names, all derived from parent.stackName.      *)
(***************************************************************************)
OAIId(sn) == sn \o "-landing-page-ui-library-cloudfront-OAI"

BucketId(sn) == sn \o "-landing-page-ui-library-bucket"

ZoneId(sn) == sn \o "-landing-page-ui-library-zone"

CertificateId(sn) == sn \o "-landing-page-ui-library-site-certificate"

HeaderPolicyId(sn) ==
    sn \o "-landing-page-ui-library-security-headers-response-header-policy"

DistributionId(sn) == sn \o "-landing-page-ui-library-site-distribution"

ARecordId(sn) == sn \o "-landing-page-ui-library-site-alias-record"

BucketExportName(sn) == "-" \o sn \o "-bucket-name"

DistributionExportName(sn) == "-" \o sn \o "-cloudFront-distribution-id"

UrlExportNameSame(sn) == "-" \o sn \o "-cloudFront-distribution-id"

UrlExportName(sn) == "-" \o sn \o "-landing-page-ui-url"

(***************************************************************************)
(* Program order of the constructor's statements.                          *)
(***************************************************************************)
StmtOrderAliasFirst ==
    << "NewOAI", "NewBucket", "AddToResourcePolicy", "ExportBucketName",
       "IfDomainName", "FromLookup", "AssignSiteDomain", "NewCertificate",
       "NewResponseHeadersPolicy", "IfZone", "NewARecord", "ExportSiteUrl",
       "ExportDefaultUrl", "NewDistribution", "ExportDistributionId",
       "Done" >>

StmtOrder ==
    << "NewOAI", "NewBucket", "AddToResourcePolicy", "ExportBucketName",
       "IfDomainName", "FromLookup", "AssignSiteDomain", "NewCertificate",
       "NewResponseHeadersPolicy", "NewDistribution", "ExportDistributionId",
       "IfZone", "NewARecord", "ExportSiteUrl", "ExportDefaultUrl", "Done" >>

(* The statement that follows statement l in program order. *)
Following(l) ==
    StmtOrder[(CHOOSE i \in 1..Len(StmtOrder) : StmtOrder[i] = l) + 1]

(***************************************************************************)
(* Expressions of the constructor.                                         *)
(***************************************************************************)

(* Line 57: if (properties.domainName) *)
DomainNameGuardOrSub(p) == Truthy(p.domainName) \/ Truthy(p.siteSubDomain)

DomainNameGuard(p) == Truthy(p.domainName)

(* Line 59: `${properties.siteSubDomain}.${properties.domainName}` *)
SiteDomainNoDot(p) ==
    << TemplateString(p.siteSubDomain) \o TemplateString(p.domainName) >>

SiteDomain(p) ==
    << TemplateString(p.siteSubDomain) \o "." \o TemplateString(p.domainName) >>

(* Line 105: siteDomain ? [siteDomain] : [] *)
DistributionDomainNamesAlways(sd) == << TemplateString(sd) >>

DistributionDomainNames(sd) == IF Truthy(sd) THEN << sd[1] >> ELSE << >>

(* Line 137: if (zone) *)
ZoneGuardNever(z) == FALSE

ZoneGuard(z) == z # <<>>

(* Lines 35-44: the content bucket's properties. *)
BucketPropsPublic(sn) ==
    [ bucketName        |-> BucketId(sn),
      publicReadAccess  |-> TRUE,
      blockPublicAccess |-> "BLOCK_ACLS",
      removalPolicy     |-> "DESTROY",
      autoDeleteObjects |-> TRUE,
      accessControl     |-> "PUBLIC_READ",
      objectOwnership   |-> "BUCKET_OWNER_ENFORCED",
      encryption        |-> "S3_MANAGED" ]

BucketProps(sn) ==
    [ bucketName        |-> BucketId(sn),
      publicReadAccess  |-> FALSE,
      blockPublicAccess |-> "BLOCK_ALL",
      removalPolicy     |-> "DESTROY",
      autoDeleteObjects |-> TRUE,
      accessControl     |-> "PRIVATE",
      objectOwnership   |-> "BUCKET_OWNER_ENFORCED",
      encryption        |-> "S3_MANAGED" ]

(* Lines 110-123: errorResponses; ttl in minutes. *)
ErrorResponsesOnly404 ==
    << [ httpStatus |-> 404, responseHttpStatus |-> 200,
         responsePagePath |-> "/index.html", ttl |-> 0 ] >>

ErrorResponses ==
    << [ httpStatus |-> 403, responseHttpStatus |-> 200,
         responsePagePath |-> "/index.html", ttl |-> 0 ],
       [ httpStatus |-> 404, responseHttpStatus |-> 200,
         responsePagePath |-> "/index.html", ttl |-> 0 ] >>

(* Lines 71-98: securityHeadersBehavior; max-age in days. *)
SecurityHeadersBehavior ==
    [ contentSecurityPolicy   |-> [ override |-> TRUE,
                                    contentSecurityPolicy |-> "default-src 'self'" ],
      strictTransportSecurity |-> [ override |-> TRUE,
                                    accessControlMaxAge |-> 2 * 365,
                                    includeSubdomains |-> TRUE,
                                    preload |-> TRUE ],
      contentTypeOptions      |-> [ override |-> TRUE ],
      referrerPolicy          |-> [ override |-> TRUE,
                                    referrerPolicy |-> "STRICT_ORIGIN_WHEN_CROSS_ORIGIN" ],
      xssProtection           |-> [ override |-> TRUE, protection |-> TRUE,
                                    modeBlock |-> TRUE ],
      frameOptions            |-> [ override |-> TRUE, frameOption |-> "DENY" ] ]

(***************************************************************************)
(* Initial state: nothing constructed; any configuration.                  *)
(***************************************************************************)
Init ==
    /\ pc = [b \in Builds |-> "NewOAI"]
    /\ properties \in [Builds -> [domainName : DomainNames, siteSubDomain : SubDomains]]
    /\ stackName \in [Builds -> StackNames]
    /\ cloudfrontOAI = [b \in Builds |-> <<>>]
    /\ siteBucket = [b \in Builds |-> <<>>]
    /\ resourcePolicy = [b \in Builds |-> <<>>]
    /\ zone = [b \in Builds |-> <<>>]
    /\ siteDomain = [b \in Builds |-> <<>>]
    /\ certificate = [b \in Builds |-> <<>>]
    /\ responseHeaderPolicy = [b \in Builds |-> <<>>]
    /\ distribution = [b \in Builds |-> <<>>]
    /\ aRecord = [b \in Builds |-> <<>>]
    /\ exports = [b \in Builds |-> <<>>]
    /\ lookups = [b \in Builds |-> 0]
    /\ error = [b \in Builds |-> <<>>]

(***************************************************************************)
(* The statements.                                                         *)
(***************************************************************************)

(* Line 30: new cloudfront.OriginAccessIdentity *)
NewOAI(b) ==
    /\ pc[b] = "NewOAI"
    /\ cloudfrontOAI' = [cloudfrontOAI EXCEPT ![b] =
                            << [ id |-> OAIId(stackName[b]) ] >>]
    /\ pc' = [pc EXCEPT ![b] = Following("NewOAI")]
    /\ UNCHANGED <<properties, stackName, siteBucket, resourcePolicy, zone,
                   siteDomain, certificate, responseHeaderPolicy, distribution,
                   aRecord, exports, lookups, error>>

(* Lines 35-44: new s3.Bucket *)
NewBucket(b) ==
    /\ pc[b] = "NewBucket"
    /\ siteBucket' = [siteBucket EXCEPT ![b] =
                         << [ id    |-> BucketId(stackName[b]),
                              props |-> BucketProps(stackName[b]) ] >>]
    /\ pc' = [pc EXCEPT ![b] = Following("NewBucket")]
    /\ UNCHANGED <<properties, stackName, cloudfrontOAI, resourcePolicy, zone,
                   siteDomain, certificate, responseHeaderPolicy, distribution,
                   aRecord, exports, lookups, error>>

(* Lines 47-51: siteBucket.addToResourcePolicy *)
AddToResourcePolicy(b) ==
    /\ pc[b] = "AddToResourcePolicy"
    /\ resourcePolicy' = [resourcePolicy EXCEPT ![b] =
                             << [ bucket     |-> BucketId(stackName[b]),
                                  actions    |-> << "s3:GetObject" >>,
                                  resources  |-> << Token(BucketId(stackName[b]), "Arn") \o "/*" >>,
                                  principals |-> << OAIId(stackName[b]) >> ] >>]
    /\ pc' = [pc EXCEPT ![b] = Following("AddToResourcePolicy")]
    /\ UNCHANGED <<properties, stackName, cloudfrontOAI, siteBucket, zone,
                   siteDomain, certificate, responseHeaderPolicy, distribution,
                   aRecord, exports, lookups, error>>

(* Line 52: parent.exportValue(siteBucket.bucketName, ...) *)
ExportBucketName(b) ==
    /\ pc[b] = "ExportBucketName"
    /\ exports' = [exports EXCEPT ![b] = Append(@,
                      [ name  |-> BucketExportName(stackName[b]),
                        value |-> Token(BucketId(stackName[b]), "Ref") ])]
    /\ pc' = [pc EXCEPT ![b] = Following("ExportBucketName")]
    /\ UNCHANGED <<properties, stackName, cloudfrontOAI, siteBucket,
                   resourcePolicy, zone, siteDomain, certificate,
                   responseHeaderPolicy, distribution, aRecord, lookups, error>>

(* Line 57: if (properties.domainName) { ... } *)
IfDomainName(b) ==
    /\ pc[b] = "IfDomainName"
    /\ pc' = [pc EXCEPT ![b] = IF DomainNameGuard(properties[b])
                               THEN Following("IfDomainName")
                               ELSE Following("NewCertificate")]
    /\ UNCHANGED <<properties, stackName, cloudfrontOAI, siteBucket,
                   resourcePolicy, zone, siteDomain, certificate,
                   responseHeaderPolicy, distribution, aRecord, exports,
                   lookups, error>>

(* Line 58: route53.HostedZone.fromLookup({ domainName: properties.domainName }),
   the zone exists.  fromLookup imports the zone; it declares no resource. *)
FromLookupFound(b) ==
    /\ pc[b] = "FromLookup"
    /\ lookups' = [lookups EXCEPT ![b] = @ + 1]
    /\ zone' = [zone EXCEPT ![b] =
                   << [ id       |-> ZoneId(stackName[b]),
                        zoneName |-> properties[b].domainName ] >>]
    /\ pc' = [pc EXCEPT ![b] = Following("FromLookup")]
    /\ UNCHANGED <<properties, stackName, cloudfrontOAI, siteBucket,
                   resourcePolicy, siteDomain, certificate,
                   responseHeaderPolicy, distribution, aRecord, exports, error>>

(* Line 58: route53.HostedZone.fromLookup throws; nothing catches it, the
   constructor is abandoned. *)
FromLookupNotFoundRetry(b) ==
    /\ pc[b] = "FromLookup"
    /\ lookups[b] < 2
    /\ lookups' = [lookups EXCEPT ![b] = @ + 1]
    /\ UNCHANGED <<pc, properties, stackName, cloudfrontOAI, siteBucket,
                   resourcePolicy, zone, siteDomain, certificate,
                   responseHeaderPolicy, distribution, aRecord, exports, error>>

FromLookupNotFoundSwallowed(b) ==
    /\ pc[b] = "FromLookup"
    /\ lookups' = [lookups EXCEPT ![b] = @ + 1]
    /\ error' = [error EXCEPT ![b] = << "zone not found" >>]
    /\ pc' = [pc EXCEPT ![b] = Following("NewCertificate")]
    /\ UNCHANGED <<properties, stackName, cloudfrontOAI, siteBucket,
                   resourcePolicy, zone, siteDomain, certificate,
                   responseHeaderPolicy, distribution, aRecord, exports>>

FromLookupNotFound(b) ==
    /\ pc[b] = "FromLookup"
    /\ lookups' = [lookups EXCEPT ![b] = @ + 1]
    /\ error' = [error EXCEPT ![b] = << "zone not found" >>]
    /\ pc' = [pc EXCEPT ![b] = "Failed"]
    /\ UNCHANGED <<properties, stackName, cloudfrontOAI, siteBucket,
                   resourcePolicy, zone, siteDomain, certificate,
                   responseHeaderPolicy, distribution, aRecord, exports>>

(* Line 59: siteDomain = `${siteSubDomain}.${domainName}` *)
AssignSiteDomain(b) ==
    /\ pc[b] = "AssignSiteDomain"
    /\ siteDomain' = [siteDomain EXCEPT ![b] = SiteDomain(properties[b])]
    /\ pc' = [pc EXCEPT ![b] = Following("AssignSiteDomain")]
    /\ UNCHANGED <<properties, stackName, cloudfrontOAI, siteBucket,
                   resourcePolicy, zone, certificate, responseHeaderPolicy,
                   distribution, aRecord, exports, lookups, error>>

(* Lines 61-66: new acm.DnsValidatedCertificate *)
NewCertificate(b) ==
    /\ pc[b] = "NewCertificate"
    /\ certificate' = [certificate EXCEPT ![b] =
                          << [ id         |-> CertificateId(stackName[b]),
                               domainName |-> TemplateString(siteDomain[b]),
                               hostedZone |-> ZoneId(stackName[b]),
                               region     |-> "us-east-1" ] >>]
    /\ pc' = [pc EXCEPT ![b] = Following("NewCertificate")]
    /\ UNCHANGED <<properties, stackName, cloudfrontOAI, siteBucket,
                   resourcePolicy, zone, siteDomain, responseHeaderPolicy,
                   distribution, aRecord, exports, lookups, error>>

(* Lines 69-99: new cloudfront.ResponseHeadersPolicy *)
NewResponseHeadersPolicy(b) ==
    /\ pc[b] = "NewResponseHeadersPolicy"
    /\ responseHeaderPolicy' = [responseHeaderPolicy EXCEPT ![b] =
                                   << [ id |-> HeaderPolicyId(stackName[b]),
                                        securityHeadersBehavior |-> SecurityHeadersBehavior ] >>]
    /\ pc' = [pc EXCEPT ![b] = Following("NewResponseHeadersPolicy")]
    /\ UNCHANGED <<properties, stackName, cloudfrontOAI, siteBucket,
                   resourcePolicy, zone, siteDomain, certificate, distribution,
                   aRecord, exports, lookups, error>>

(* Lines 102-133: new cloudfront.Distribution.  The certificate property is
   the certificate variable as it stands: a construct or undefined. *)
NewDistribution(b) ==
    /\ pc[b] = "NewDistribution"
    /\ distribution' = [distribution EXCEPT ![b] =
          << [ id                     |-> DistributionId(stackName[b]),
               certificate            |-> IF certificate[b] = <<>> THEN <<>>
                                          ELSE << certificate[b][1].id >>,
               defaultRootObject      |-> "index.html",
               domainNames            |-> DistributionDomainNames(siteDomain[b]),
               minimumProtocolVersion |-> "TLS_V1_2_2021",
               priceClass             |-> "PRICE_CLASS_ALL",
               httpVersion            |-> "HTTP2",
               enableIpv6             |-> TRUE,
               errorResponses         |-> ErrorResponses,
               defaultBehavior        |->
                  [ origin                |-> [ bucket |-> BucketId(stackName[b]),
                                                originAccessIdentity |-> OAIId(stackName[b]) ],
                    compress              |-> TRUE,
                    allowedMethods        |-> "ALLOW_GET_HEAD_OPTIONS",
                    viewerProtocolPolicy  |-> "REDIRECT_TO_HTTPS",
                    responseHeadersPolicy |-> HeaderPolicyId(stackName[b]),
                    cachedMethods         |-> "CACHE_GET_HEAD",
                    cachePolicy           |-> "CACHING_OPTIMIZED" ] ] >>]
    /\ pc' = [pc EXCEPT ![b] = Following("NewDistribution")]
    /\ UNCHANGED <<properties, stackName, cloudfrontOAI, siteBucket,
                   resourcePolicy, zone, siteDomain, certificate,
                   responseHeaderPolicy, aRecord, exports, lookups, error>>

(* Line 134: parent.exportValue(distribution.distributionId, ...) *)
ExportDistributionId(b) ==
    /\ pc[b] = "ExportDistributionId"
    /\ exports' = [exports EXCEPT ![b] = Append(@,
                      [ name  |-> DistributionExportName(stackName[b]),
                        value |-> Token(DistributionId(stackName[b]), "Ref") ])]
    /\ pc' = [pc EXCEPT ![b] = Following("ExportDistributionId")]
    /\ UNCHANGED <<properties, stackName, cloudfrontOAI, siteBucket,
                   resourcePolicy, zone, siteDomain, certificate,
                   responseHeaderPolicy, distribution, aRecord, lookups, error>>

(* Lines 137, 144: if (zone) { ... } else { ... } *)
IfZone(b) ==
    /\ pc[b] = "IfZone"
    /\ pc' = [pc EXCEPT ![b] = IF ZoneGuard(zone[b])
                               THEN Following("IfZone")
                               ELSE "ExportDefaultUrl"]
    /\ UNCHANGED <<properties, stackName, cloudfrontOAI, siteBucket,
                   resourcePolicy, zone, siteDomain, certificate,
                   responseHeaderPolicy, distribution, aRecord, exports,
                   lookups, error>>

(* Lines 138-142: new route53.ARecord *)
NewARecord(b) ==
    /\ pc[b] = "NewARecord"
    /\ aRecord' = [aRecord EXCEPT ![b] =
                      << [ id         |-> ARecordId(stackName[b]),
                           recordName |-> TemplateString(siteDomain[b]),
                           target     |-> DistributionId(stackName[b]),
                           zone       |-> ZoneId(stackName[b]) ] >>]
    /\ pc' = [pc EXCEPT ![b] = Following("NewARecord")]
    /\ UNCHANGED <<properties, stackName, cloudfrontOAI, siteBucket,
                   resourcePolicy, zone, siteDomain, certificate,
                   responseHeaderPolicy, distribution, exports, lookups, error>>

(* Line 143: parent.exportValue(`https://${siteDomain}`, ...); the else
   branch is skipped. *)
ExportSiteUrl(b) ==
    /\ pc[b] = "ExportSiteUrl"
    /\ exports' = [exports EXCEPT ![b] = Append(@,
                      [ name  |-> UrlExportName(stackName[b]),
                        value |-> "https://" \o TemplateString(siteDomain[b]) ])]
    /\ pc' = [pc EXCEPT ![b] = Following("ExportDefaultUrl")]
    /\ UNCHANGED <<properties, stackName, cloudfrontOAI, siteBucket,
                   resourcePolicy, zone, siteDomain, certificate,
                   responseHeaderPolicy, distribution, aRecord, lookups, error>>

(* Line 145: parent.exportValue(`https://${distribution.distributionDomainName}`, ...) *)
ExportDefaultUrl(b) ==
    /\ pc[b] = "ExportDefaultUrl"
    /\ exports' = [exports EXCEPT ![b] = Append(@,
                      [ name  |-> UrlExportName(stackName[b]),
                        value |-> "https://" \o Token(DistributionId(stackName[b]), "DomainName") ])]
    /\ pc' = [pc EXCEPT ![b] = Following("ExportDefaultUrl")]
    /\ UNCHANGED <<properties, stackName, cloudfrontOAI, siteBucket,
                   resourcePolicy, zone, siteDomain, certificate,
                   responseHeaderPolicy, distribution, aRecord, lookups, error>>

(* One statement of the constructor of build b. *)
Step(b) ==
    \/ NewOAI(b)
    \/ NewBucket(b)
    \/ AddToResourcePolicy(b)
    \/ ExportBucketName(b)
    \/ IfDomainName(b)
    \/ FromLookupFound(b)
    \/ FromLookupNotFound(b)
    \/ AssignSiteDomain(b)
    \/ NewCertificate(b)
    \/ NewResponseHeadersPolicy(b)
    \/ NewDistribution(b)
    \/ ExportDistributionId(b)
    \/ IfZone(b)
    \/ NewARecord(b)
    \/ ExportSiteUrl(b)
    \/ ExportDefaultUrl(b)

Next == \E b \in Builds : Step(b)

Spec == Init /\ [][Next]_vars

(* The constructor is synchronous code: a build that can take a step does. *)
FairSpec == Spec /\ \A b \in Builds : WF_vars(Step(b))

(***************************************************************************)
(* Vocabulary of the properties.                                           *)
(***************************************************************************)
Completed(b) == pc[b] = "Done"

Failed(b) == pc[b] = "Failed"

DomainAbsent(b) == properties[b].domainName \in {<<>>, <<"">>}

ExportNames(b) == {exports[b][i].name : i \in 1..Len(exports[b])}

(* The values registered under the URL export name. *)
UrlValues(b) ==
    {exports[b][i].value : i \in {j \in 1..Len(exports[b]) :
                                    exports[b][j].name = "-" \o stackName[b] \o "-landing-page-ui-url"}}

(* siteSubDomain + "." + domainName, as JavaScript concatenates them. *)
ResolvedDomain(b) ==
    (IF properties[b].siteSubDomain = <<>> THEN "undefined"
     ELSE properties[b].siteSubDomain[1])
    \o "." \o properties[b].domainName[1]

DefaultUrl(b) ==
    "https://${" \o stackName[b] \o "-landing-page-ui-library-site-distribution.DomainName}"

(* Everything build b has declared, exports aside. *)
Graph(b) ==
    << cloudfrontOAI[b], siteBucket[b], resourcePolicy[b], zone[b],
       certificate[b], responseHeaderPolicy[b], distribution[b], aRecord[b] >>

(* The construct ids build b has declared or imported. *)
Declared(b) ==
    {r[1].id : r \in {x \in { cloudfrontOAI[b], siteBucket[b], zone[b],
                              certificate[b], responseHeaderPolicy[b],
                              distribution[b], aRecord[b] } : x # <<>>}}

TypeOK ==
    \A b \in Builds :
        /\ pc[b] \in {StmtOrder[i] : i \in 1..Len(StmtOrder)} \cup {"Failed"}
        /\ lookups[b] \in 0..1

(***************************************************************************)
(* C1 as stated: when the zone lookup fails, no export has been registered *)
(* and no resource has been declared.                                      *)
(***************************************************************************)
C1_NothingDeclaredOnFailure ==
    \A b \in Builds :
        error[b] # <<>> =>
            /\ exports[b] = <<>>
            /\ Graph(b) = << <<>>, <<>>, <<>>, <<>>, <<>>, <<>>, <<>>, <<>> >>

(***************************************************************************)
(* C1 (amended): when the zone lookup fails the build is abandoned with    *)
(* the error; what was declared before the lookup (access identity,        *)
(* content store, access policy, store-name export) is registered, and     *)
(* nothing else is: no zone, certificate, header policy, distribution,     *)
(* alias record, distribution-id export or URL export.                     *)
(***************************************************************************)
C1_OnlyPrefixDeclaredOnFailure ==
    \A b \in Builds :
        error[b] # <<>> =>
            /\ Failed(b)
            /\ cloudfrontOAI[b] # <<>>
            /\ siteBucket[b] # <<>>
            /\ resourcePolicy[b] # <<>>
            /\ Len(exports[b]) = 1
            /\ exports[b][1].name = "-" \o stackName[b] \o "-bucket-name"
            /\ zone[b] = <<>>
            /\ siteDomain[b] = <<>>
            /\ certificate[b] = <<>>
            /\ responseHeaderPolicy[b] = <<>>
            /\ distribution[b] = <<>>
            /\ aRecord[b] = <<>>

C1_Witness == \E b \in Builds : error[b] # <<>> /\ lookups[b] = 1

(***************************************************************************)
(* C2: a completed build whose domainName is unset has no certificate and  *)
(* no alias record, its distribution has an empty domain-name list and no  *)
(* certificate, and its URL export is https://<distribution domain name>.  *)
(***************************************************************************)
C2_NoDomainGraph ==
    \A b \in Builds :
        (Completed(b) /\ DomainAbsent(b)) =>
            /\ certificate[b] = <<>>
            /\ aRecord[b] = <<>>
            /\ distribution[b][1].certificate = <<>>
            /\ distribution[b][1].domainNames = <<>>
            /\ UrlValues(b) = {DefaultUrl(b)}

C2_Witness ==
    \E b \in Builds :
        Completed(b) /\ properties[b].domainName = <<>> /\ Len(exports[b]) = 3

(***************************************************************************)
(* C3: a completed build whose domainName is set has resolvedDomain =      *)
(* siteSubDomain + "." + domainName; the certificate is for resolvedDomain *)
(* and validated through the looked-up zone; the alias record is named     *)
(* resolvedDomain and lies in that zone; the URL export is                 *)
(* "https://" + resolvedDomain.                                            *)
(***************************************************************************)
C3_CustomDomainGraph ==
    \A b \in Builds :
        (Completed(b) /\ ~DomainAbsent(b)) =>
            /\ zone[b] # <<>>
            /\ zone[b][1].zoneName = properties[b].domainName
            /\ siteDomain[b] = << ResolvedDomain(b) >>
            /\ certificate[b] # <<>>
            /\ certificate[b][1].domainName = ResolvedDomain(b)
            /\ certificate[b][1].hostedZone = zone[b][1].id
            /\ distribution[b][1].certificate = << certificate[b][1].id >>
            /\ distribution[b][1].domainNames = << ResolvedDomain(b) >>
            /\ aRecord[b] # <<>>
            /\ aRecord[b][1].recordName = ResolvedDomain(b)
            /\ aRecord[b][1].zone = zone[b][1].id
            /\ aRecord[b][1].target = distribution[b][1].id
            /\ UrlValues(b) = {"https://" \o ResolvedDomain(b)}

C3_Witness ==
    \E b \in Builds :
        /\ Completed(b)
        /\ properties[b] = [domainName |-> <<"example.com">>, siteSubDomain |-> <<"www">>]
        /\ UrlValues(b) = {"https://www.example.com"}

(***************************************************************************)
(* C4: a completed build has registered exactly three exports under three  *)
(* distinct names (store name, distribution id, URL), exactly one of them  *)
(* the URL: the custom-domain URL when the zone is present, else the       *)
(* distribution's default URL.                                             *)
(***************************************************************************)
C4_ThreeExports ==
    \A b \in Builds :
        Completed(b) =>
            /\ Len(exports[b]) = 3
            /\ Cardinality(ExportNames(b)) = 3
            /\ ExportNames(b) = { "-" \o stackName[b] \o "-bucket-name",
                                  "-" \o stackName[b] \o "-cloudFront-distribution-id",
                                  "-" \o stackName[b] \o "-landing-page-ui-url" }
            /\ Cardinality(UrlValues(b)) = 1
            /\ (zone[b] # <<>> => UrlValues(b) = {"https://" \o siteDomain[b][1]})
            /\ (zone[b] = <<>> => UrlValues(b) = {DefaultUrl(b)})

C4_Witness ==
    /\ Completed(1) /\ zone[1] # <<>> /\ Len(exports[1]) = 3
    /\ Completed(2) /\ zone[2] = <<>> /\ Len(exports[2]) = 3

(***************************************************************************)
(* C5: two completed builds under the same stack name, both with the same  *)
(* absent domainName, have the same resources and the same exports         *)
(* whatever their siteSubDomain, and neither looked up a zone, issued a    *)
(* certificate or created an alias record.                                 *)
(***************************************************************************)
C5_SubDomainIgnored ==
    \A b1, b2 \in Builds :
        ( /\ Completed(b1) /\ Completed(b2)
          /\ stackName[b1] = stackName[b2]
          /\ properties[b1].domainName = properties[b2].domainName
          /\ DomainAbsent(b1) ) =>
            /\ Graph(b1) = Graph(b2)
            /\ exports[b1] = exports[b2]
            /\ lookups[b1] = 0 /\ zone[b1] = <<>>
            /\ certificate[b1] = <<>> /\ aRecord[b1] = <<>>

C5_Witness ==
    /\ Completed(1) /\ Completed(2)
    /\ stackName[1] = stackName[2]
    /\ properties[1].domainName = <<>> /\ properties[2].domainName = <<>>
    /\ properties[1].siteSubDomain = <<"www">>
    /\ properties[2].siteSubDomain = <<>>

(***************************************************************************)
(* C6: in every state, a content store that exists is private: public      *)
(* access fully blocked, no public read, private access control.           *)
(***************************************************************************)
C6_StorePrivate ==
    \A b \in Builds :
        siteBucket[b] # <<>> =>
            /\ siteBucket[b][1].props.blockPublicAccess = "BLOCK_ALL"
            /\ siteBucket[b][1].props.publicReadAccess = FALSE
            /\ siteBucket[b][1].props.accessControl = "PRIVATE"

C6_Witness ==
    /\ Completed(1) /\ siteBucket[1] # <<>> /\ ~DomainAbsent(1)
    /\ Failed(2) /\ siteBucket[2] # <<>>

(***************************************************************************)
(* C7: a distribution's error-remap rules are exactly 403 -> 200 and       *)
(* 404 -> 200, both serving /index.html with zero cache time, with or      *)
(* without a domain.                                                       *)
(***************************************************************************)
C7_ErrorRemap ==
    \A b \in Builds :
        distribution[b] # <<>> =>
            /\ Len(distribution[b][1].errorResponses) = 2
            /\ {distribution[b][1].errorResponses[i] : i \in 1..2} =
                 { [ httpStatus |-> 403, responseHttpStatus |-> 200,
                     responsePagePath |-> "/index.html", ttl |-> 0 ],
                   [ httpStatus |-> 404, responseHttpStatus |-> 200,
                     responsePagePath |-> "/index.html", ttl |-> 0 ] }

C7_Witness ==
    /\ distribution[1] # <<>> /\ DomainAbsent(1)
    /\ distribution[2] # <<>> /\ ~DomainAbsent(2)

(***************************************************************************)
(* C8: in every state, every construct a declared resource refers to is    *)
(* already declared, and every export registered exposes a resource that   *)
(* is already declared.  Resources are declared one per step, so this is   *)
(* declaration in dependency order.                                        *)
(***************************************************************************)
C8_NoDanglingReference ==
    \A b \in Builds :
        /\ resourcePolicy[b] # <<>> =>
              /\ resourcePolicy[b][1].bucket \in Declared(b)
              /\ resourcePolicy[b][1].principals[1] \in Declared(b)
        /\ certificate[b] # <<>> =>
              /\ certificate[b][1].hostedZone \in Declared(b)
              /\ siteDomain[b] # <<>>
        /\ distribution[b] # <<>> =>
              /\ distribution[b][1].defaultBehavior.origin.bucket \in Declared(b)
              /\ distribution[b][1].defaultBehavior.origin.originAccessIdentity \in Declared(b)
              /\ distribution[b][1].defaultBehavior.responseHeadersPolicy \in Declared(b)
              /\ \A i \in 1..Len(distribution[b][1].certificate) :
                    distribution[b][1].certificate[i] \in Declared(b)
        /\ aRecord[b] # <<>> =>
              /\ aRecord[b][1].target \in Declared(b)
              /\ aRecord[b][1].zone \in Declared(b)
        /\ ("-" \o stackName[b] \o "-bucket-name") \in ExportNames(b) =>
              siteBucket[b] # <<>>
        /\ ("-" \o stackName[b] \o "-cloudFront-distribution-id") \in ExportNames(b) =>
              distribution[b] # <<>>
        /\ UrlValues(b) # {} =>
              /\ distribution[b] # <<>>
              /\ (zone[b] # <<>> => aRecord[b] # <<>>)

C8_Witness ==
    /\ Completed(1) /\ aRecord[1] # <<>> /\ certificate[1] # <<>>
    /\ pc[2] = "NewDistribution" /\ resourcePolicy[2] # <<>>

(***************************************************************************)
(* C9: every build ends, either completed with the full graph and no       *)
(* error, or failed with the error; the zone is looked up at most once.    *)
(***************************************************************************)
C9_Terminates ==
    /\ [](\A b \in Builds :
            /\ lookups[b] <= 1
            /\ Completed(b) => (error[b] = <<>> /\ distribution[b] # <<>>
                                /\ Len(exports[b]) = 3)
            /\ Failed(b) => error[b] # <<>>)
    /\ <>[](\A b \in Builds : Completed(b) \/ Failed(b))

C9_Witness ==
    /\ Completed(1) /\ lookups[1] = 1
    /\ Failed(2) /\ lookups[2] = 1

(***************************************************************************)
(* C10: in a completed build the domain-dependent parts agree: the         *)
(* certificate exists iff the distribution carries it, iff the             *)
(* distribution's domain-name list is non-empty, iff the alias record      *)
(* exists, iff the URL export is the custom-domain URL.                    *)
(***************************************************************************)
C10_DomainPartsConsistent ==
    \A b \in Builds :
        Completed(b) =>
            /\ (certificate[b] # <<>>) <=> (distribution[b][1].certificate # <<>>)
            /\ (certificate[b] # <<>>) <=> (distribution[b][1].domainNames # <<>>)
            /\ (certificate[b] # <<>>) <=> (aRecord[b] # <<>>)
            /\ (certificate[b] # <<>>) <=> (UrlValues(b) # {DefaultUrl(b)})
            /\ (certificate[b] # <<>>) =>
                  UrlValues(b) = {"https://" \o distribution[b][1].domainNames[1]}

C10_Witness ==
    /\ Completed(1) /\ properties[1].domainName = <<"">>
    /\ properties[1].siteSubDomain = <<"www">> /\ certificate[1] = <<>>
    /\ Completed(2) /\ properties[2].domainName = <<"example.com">>
    /\ properties[2].siteSubDomain = <<"">> /\ certificate[2] # <<>>

====
